---- MODULE Spec2Model ----
(***************************************************************************)
(* Model of the issue_comment.created handler of om-github-agent           *)
(* (src/index.ts, lines 68-145): mention detection, argument parsing and   *)
(* the three awaited REST calls (repos.getBranch, pulls.create,            *)
(* issues.createComment).                                                  *)
(*                                                                         *)
(* Text is a sequence of fragments.  Text the code inspects character by   *)
(* character (the comment body, the configured app name) is a sequence of  *)
(* one-character strings; literals the code only concatenates are kept as  *)
(* one fragment each.  JavaScript indices are 0-based; sequence positions  *)
(* here are 1-based, and the operators that return a JavaScript index      *)
(* (MatchIndex, IndexOf) return the 0-based value.                         *)
(***************************************************************************)
EXTENDS Integers, Sequences, FiniteSets, TLC

VARIABLES appName, payload, pc, cmd, calls

vars == <<appName, payload, pc, cmd, calls>>

(***************************************************************************)
(* Bounds of the model.                                                    *)
(***************************************************************************)
MaxTok == 2
MaxRest == 3

EventIds == {1, 2}

(***************************************************************************)
(* Characters and the JavaScript string helpers the handler uses.          *)
(***************************************************************************)
Lower == <<"a","b","c","d","e","f","g","h","i","j","k","l","m",
           "n","o","p","q","r","s","t","u","v","w","x","y","z">>
Upper == <<"A","B","C","D","E","F","G","H","I","J","K","L","M",
           "N","O","P","Q","R","S","T","U","V","W","X","Y","Z">>

Quote == "\""

\* Canonicalize of a RegExp with the 'i' flag: the character's upper case.
Canonicalize(ch) ==
  IF \E i \in 1..Len(Lower) : Lower[i] = ch
    THEN Upper[CHOOSE i \in 1..Len(Lower) : Lower[i] = ch]
    ELSE ch

\* \s of a RegExp and the characters String.prototype.trim strips.
IsWhiteSpace(ch) == ch \in {" ", "\t", "\n"}

\* \S of a RegExp.
IsNonSpace(ch) == ~IsWhiteSpace(ch)

\* [^"] of a RegExp.
IsNotQuote(ch) == ch # Quote

\* The characters '.' of a RegExp does not match.
IsLineTerminator(ch) == ch = "\n"

SetMin(S) == CHOOSE x \in S : \A y \in S : x <= y
SetMax(S) == CHOOSE x \in S : \A y \in S : x >= y

\* String.prototype.substring(start): the text from 0-based index start on.
Substring(s, start) ==
  LET from == IF start < 0 THEN 0 ELSE IF start > Len(s) THEN Len(s) ELSE start
  IN  SubSeq(s, from + 1, Len(s))

\* String.prototype.indexOf(t): 0-based index of the first occurrence, or -1.
IndexOf(s, t) ==
  LET hits == {k \in 0..(Len(s) - Len(t)) : SubSeq(s, k + 1, k + Len(t)) = t}
  IN  IF hits = {} THEN -1 ELSE SetMin(hits)

\* String.prototype.trim().
Trim(s) ==
  LET keep == {k \in 1..Len(s) : IsNonSpace(s[k])}
  IN  IF keep = {} THEN <<>> ELSE SubSeq(s, SetMin(keep), SetMax(keep))

(***************************************************************************)
(* The two regular expressions of the handler.                             *)
(***************************************************************************)
CreatePr == <<" ", "c", "r", "e", "a", "t", "e", "-", "p", "r">>

\* The source text handed to new RegExp: `@${appName} create-pr`.
MentionSource(name) == <<"@">> \o name \o CreatePr

\* AtomMatches of a RegExp built without the 'i' flag.
AtomMatchesCaseSensitive(p, ch) ==
  IF p = "." THEN ~IsLineTerminator(ch)
  ELSE p = ch

\* One pattern character of the mention RegExp against one input character,
\* under the 'i' flag.  The app name is interpolated unescaped, so a '.' in
\* it is the RegExp wildcard.
AtomMatches(p, ch) ==
  IF p = "." THEN ~IsLineTerminator(ch)
  ELSE Canonicalize(p) = Canonicalize(ch)

\* The mention RegExp matches s at 1-based position i.
MentionMatchesAt(name, s, i) ==
  LET pat == MentionSource(name)
  IN  /\ i + Len(pat) - 1 <= Len(s)
      /\ \A k \in 1..Len(pat) : AtomMatches(pat[k], s[i + k - 1])

\* mentionRegex.test(commentBody)
MentionTest(name, s) == \E i \in 1..Len(s) : MentionMatchesAt(name, s, i)

\* match.index of commentBody.match(mentionRegex): the leftmost match, 0-based.
MatchIndex(name, s) ==
  SetMin({i \in 1..Len(s) : MentionMatchesAt(name, s, i)}) - 1

\* match[0].length: the pattern has one atom per character.
MatchLength(name) == Len(MentionSource(name))

\* commandPart = commentBody.substring(match.index + match[0].length).trim()
CommandPart(name, s) ==
  Trim(Substring(s, MatchIndex(name, s) + MatchLength(name)))

\* Membership in the character classes of the command RegExp.
InClass(class, ch) ==
  IF class = "\\s" THEN IsWhiteSpace(ch)
  ELSE IF class = "\\S" THEN IsNonSpace(ch)
  ELSE IsNotQuote(ch)

\* The last position of the longest run of characters of the class that
\* starts at position i (i - 1 when s[i] is not of the class): a greedy X+.
RunEnd(s, i, class) ==
  LET stops == {k \in i..Len(s) : ~InClass(class, s[k])}
  IN  IF stops # {} THEN SetMin(stops) - 1
      ELSE IF i > Len(s) THEN i - 1 ELSE Len(s)

NoParts == [matched |-> FALSE, m0 |-> <<>>, m1 |-> <<>>, m2 |-> <<>>,
            has3 |-> FALSE, m3 |-> <<>>]

\* (?:\s+\"([^\"]+)\")? after the second token, which ends at e2: w2 is the
\* end of the white space after it and q the end of the run of non-quotes
\* after the opening quote.
OptionalTitle(s, e2, w2, q) ==
  /\ w2 >= e2 + 1
  /\ w2 + 1 <= Len(s) /\ s[w2 + 1] = Quote
  /\ q >= w2 + 2
  /\ q + 1 <= Len(s) /\ s[q + 1] = Quote

\* PartsAt with the third group closed after the closing quote.
PartsAtKeepingQuotes(s, i, e1, w1, e2, w2, q, opt) ==
  [matched |-> TRUE,
   m0 |-> SubSeq(s, i, IF opt THEN q + 1 ELSE e2),
   m1 |-> SubSeq(s, i, e1),
   m2 |-> SubSeq(s, w1 + 1, e2),
   has3 |-> opt,
   m3 |-> IF opt THEN SubSeq(s, w2 + 1, q + 1) ELSE <<>>]

\* The match array, given where each piece of the match ends.
PartsAt(s, i, e1, w1, e2, w2, q, opt) ==
  [matched |-> TRUE,
   m0 |-> SubSeq(s, i, IF opt THEN q + 1 ELSE e2),
   m1 |-> SubSeq(s, i, e1),
   m2 |-> SubSeq(s, w1 + 1, e2),
   has3 |-> opt,
   m3 |-> IF opt THEN SubSeq(s, w2 + 2, q) ELSE <<>>]

TitleAt(s, i, e1, w1, e2, w2, q) ==
  PartsAt(s, i, e1, w1, e2, w2, q, OptionalTitle(s, e2, w2, q))

SecondTokenAt(s, i, e1, w1, e2, w2) ==
  IF e2 >= w1 + 1
    THEN TitleAt(s, i, e1, w1, e2, w2, RunEnd(s, w2 + 2, "[^\"]"))
    ELSE NoParts

SeparatorAt(s, i, e1, w1, e2) ==
  IF w1 >= e1 + 1
    THEN SecondTokenAt(s, i, e1, w1, e2, RunEnd(s, e2 + 1, "\\s"))
    ELSE NoParts

FirstTokenAt(s, i, e1, w1) ==
  IF e1 >= i
    THEN SeparatorAt(s, i, e1, w1, RunEnd(s, w1 + 1, "\\S"))
    ELSE NoParts

\* /(\S+)\s+(\S+)(?:\s+\"([^\"]+)\")?/ tried at position i.  Every quantifier
\* is greedy.  A shorter first token or a shorter run of white space would
\* have to be followed by a character of the class it was cut from, so only
\* the longest runs match.  With the longest second token the optional group
\* either matches (a shorter white-space run is followed by white space, not
\* by a quote, and a shorter [^\"]+ is followed by a non-quote) or is left
\* out with parts[3] undefined; the match then succeeds, so the engine never
\* backtracks into the second token.
CommandRegexFrom(s, i, e1) == FirstTokenAt(s, i, e1, RunEnd(s, e1 + 1, "\\s"))

CommandRegexAt(s, i) == CommandRegexFrom(s, i, RunEnd(s, i, "\\S"))

\* commandPart.match(commandRegex): the leftmost position that matches.
CommandRegexExec(s) ==
  LET starts == {i \in 1..Len(s) : CommandRegexAt(s, i).matched}
  IN  IF starts = {} THEN NoParts ELSE CommandRegexAt(s, SetMin(starts))

\* parts[3] || commandPart.substring(parts[0].indexOf(parts[2]) + parts[2].length).trim()
PrTitle(commandPart, parts) ==
  IF parts.has3 /\ parts.m3 # <<>> THEN parts.m3
  ELSE Trim(Substring(commandPart, IndexOf(parts.m0, parts.m2) + Len(parts.m2)))

\* !sourceBranch || !targetBranch || !prTitle
AnyFieldEmpty(sourceBranch, targetBranch, prTitle) ==
  sourceBranch = <<>> \/ targetBranch = <<>> \/ prTitle = <<>>

(***************************************************************************)
(* The texts the handler builds.                                           *)
(***************************************************************************)
UsageComment(name) ==
  <<"Invalid command format. Please use: @">> \o name
    \o <<" create-pr <source-branch> <target-branch> \"<PR title>\"">>

PullRequestBody(author, name) ==
  <<"Pull request created by @", author, " via ">> \o name \o <<".">>

SuccessComment(url) == <<"Successfully created pull request: ">> \o url

\* error.status of an error that carries none.
NoStatus == 0

SuffixUnprocessable ==
  <<" This could be due to non-existent branches, no differences between branches, or insufficient permissions.">>

SuffixNotFound == <<" One or more branches were not found.">>

\* ErrorMessage with the two status codes exchanged.
ErrorMessageWithCodesExchanged(error) ==
  <<"Failed to create pull request. Error: ">> \o error.message \o <<".">>
    \o (IF error.status = 404 THEN SuffixUnprocessable
        ELSE IF error.status = 422 THEN SuffixNotFound
        ELSE <<>>)

\* The errorMessage of the catch block.
ErrorMessage(error) ==
  <<"Failed to create pull request. Error: ">> \o error.message \o <<".">>
    \o (IF error.status = 422 THEN SuffixUnprocessable
        ELSE IF error.status = 404 THEN SuffixNotFound
        ELSE <<>>)

(***************************************************************************)
(* State.                                                                  *)
(*   appName     process.env.APP_NAME || 'om-bot', as characters           *)
(*   payload[e]  context.payload / context.repo() of event e               *)
(*   pc[e]       where the handler invocation of event e stands            *)
(*   cmd[e]      sourceBranch, targetBranch, prTitle of the invocation     *)
(*   calls       every call made on context.octokit.rest, in order, with   *)
(*               its arguments and, once it has returned, its outcome      *)
(***************************************************************************)
NoPayload == [body |-> <<>>, author |-> "", owner |-> "", repo |-> "", issue |-> 0]

NoCmd == [sourceBranch |-> <<>>, targetBranch |-> <<>>, prTitle |-> <<>>]

NoError == [message |-> <<>>, status |-> NoStatus]

\* A call on the REST client.  Arguments a call does not take are empty.
Call(e, api, args) ==
  [ev |-> e, api |-> api,
   owner |-> payload[e].owner, repo |-> payload[e].repo,
   branch |-> args.branch, title |-> args.title, head |-> args.head,
   base |-> args.base, body |-> args.body, issue_number |-> args.issue_number,
   state |-> "pending", url |-> <<>>, error |-> NoError]

NoArgs == [branch |-> <<>>, title |-> <<>>, head |-> <<>>, base |-> <<>>,
           body |-> <<>>, issue_number |-> 0]

\* repos.getBranch({ owner, repo, branch: sourceBranch })
GetBranchCall(e, c) == Call(e, "getBranch", [NoArgs EXCEPT !.branch = c.sourceBranch])

\* CreatePullCall with sourceBranch, targetBranch and prTitle kept at module
\* level: the call takes them from the invocation that parsed last.
CreatePullCallFromSharedCommand(e) ==
  LET last == calls[SetMax({k \in 1..Len(calls) : calls[k].api = "getBranch"})].ev
  IN  Call(e, "pulls.create",
           [NoArgs EXCEPT !.title = cmd[last].prTitle, !.head = cmd[last].sourceBranch,
                          !.base = cmd[last].targetBranch,
                          !.body = PullRequestBody(payload[e].author, appName)])

\* pulls.create({ owner, repo, title, head, base, body })
CreatePullCall(e) ==
  Call(e, "pulls.create",
       [NoArgs EXCEPT !.title = cmd[e].prTitle, !.head = cmd[e].sourceBranch,
                      !.base = cmd[e].targetBranch,
                      !.body = PullRequestBody(payload[e].author, appName)])

\* CreateCommentCall with a fixed issue number instead of the event's.
CreateCommentCallOnFixedIssue(e, body) ==
  Call(e, "createComment", [NoArgs EXCEPT !.issue_number = 123, !.body = body])

\* issues.createComment({ owner, repo, issue_number, body })
CreateCommentCall(e, body) ==
  Call(e, "createComment",
       [NoArgs EXCEPT !.issue_number = payload[e].issue, !.body = body])

\* The position in calls of the call event e is awaiting.
Pending(e) == CHOOSE k \in 1..Len(calls) : calls[k].ev = e /\ calls[k].state = "pending"

Resolve(e, url) ==
  [calls EXCEPT ![Pending(e)].state = "ok", ![Pending(e)].url = url]

Reject(e, error) ==
  [calls EXCEPT ![Pending(e)].state = "error", ![Pending(e)].error = error]

(***************************************************************************)
(* Inputs: the configured names, the comment events and the outcomes of    *)
(* the REST calls.                                                         *)
(***************************************************************************)
\* The app name when APP_NAME is not set, shortened from 'om-bot'.
DefaultName == <<"o", "-", "b">>

Names == {DefaultName, <<"o", ".", "b">>}

DefaultMeta ==
  [author |-> "test-user", owner |-> "test-owner", repo |-> "test-repo", issue |-> 123]

Metas ==
  {DefaultMeta,
   [author |-> "other-user", owner |-> "other-owner", repo |-> "other-repo", issue |-> 7]}

SeqsUpTo(chars, n) == UNION {[1..k -> chars] : k \in 0..n}

TokChars == {"a", "b"}
RestChars == {"a", " ", Quote}

Tokens == SeqsUpTo(TokChars, MaxTok) \ {<<>>}
Rests == SeqsUpTo(RestChars, MaxRest)

\* What follows the mention: nothing, one token, two tokens, and two tokens
\* followed by any text over RestChars.
Tails ==
  {<<>>}
    \cup {<<" ">> \o A : A \in Tokens}
    \cup {<<" ">> \o A \o <<" ">> \o B : A \in Tokens, B \in Tokens}
    \cup {<<" ">> \o A \o <<" ">> \o B \o <<" ">> \o R :
            A \in Tokens, B \in Tokens, R \in Rests}

ToUpper(s) == [k \in 1..Len(s) |-> Canonicalize(s[k])]

Phrase(name) == MentionSource(name)

\* The name as typed by a user who writes x for each '.' of it.
Respell(name) == [k \in 1..Len(name) |-> IF name[k] = "." THEN "x" ELSE name[k]]

\* How a comment may begin: the phrase, the phrase in upper case, the phrase
\* after other text, the phrase after a mention without the command, the
\* phrase after the phrase with the name respelt and one argument, the phrase
\* with the name respelt, the phrase cut short, a mention without the
\* command, and no mention.
Heads(name) ==
  {Phrase(name),
   ToUpper(Phrase(name)),
   <<"a", " ">> \o Phrase(name),
   <<"@">> \o name \o <<" ", "h", "i", "\n">> \o Phrase(name),
   <<"@">> \o Respell(name) \o CreatePr \o <<" ", "a", " ">> \o Phrase(name),
   <<"@">> \o Respell(name) \o CreatePr,
   SubSeq(Phrase(name), 1, Len(Phrase(name)) - 1),
   <<"@">> \o name \o <<" ", "h", "i">>,
   <<>>}

\* Tails every head is combined with; the last two are written in mixed case.
SampleTails ==
  {<<>>, <<" ", "a">>, <<" ", "a", " ", "b">>, <<" ", "a", " ", "b", " ", "a">>,
   <<"\t", "b", "\n", "a", " ", Quote, "a", "\n", Quote>>,
   <<" ", "A", "b", " ", "a", "B", " ", Quote, "T", "t", Quote>>,
   <<" ", "A", "b", " ", "a", "B", " ", "T", "t">>}

\* Every head followed by the sample tails, in every repository.
HeadDeliveries(name) ==
  {[name |-> name, body |-> h \o t, meta |-> m] :
     h \in Heads(name), t \in SampleTails, m \in Metas}

\* The configurations and comment events: under the default name the phrase
\* followed by every tail, and under every name every head followed by the
\* sample tails.
Deliveries ==
  {[name |-> DefaultName, body |-> Phrase(DefaultName) \o t, meta |-> DefaultMeta] :
     t \in Tails}
    \cup UNION {HeadDeliveries(name) : name \in Names}

PayloadOf(d) ==
  [body |-> d.body, author |-> d.meta.author, owner |-> d.meta.owner,
   repo |-> d.meta.repo, issue |-> d.meta.issue]

Errors ==
  {[message |-> <<"Branch not found">>, status |-> 404],
   [message |-> <<"API Error">>, status |-> 422],
   [message |-> <<"Server Error">>, status |-> 500],
   [message |-> <<"socket hang up">>, status |-> NoStatus]}

CommentErrors ==
  {[message |-> <<"Not Found">>, status |-> 404]}

Urls ==
  {<<"https://github.com/test-owner/test-repo/pull/1">>,
   <<"https://github.com/test-owner/test-repo/pull/2">>}

(***************************************************************************)
(* Initial states: one comment event delivered, no call made.              *)
(***************************************************************************)
Init ==
  \E d \in Deliveries :
    /\ appName = d.name
    /\ payload = [e \in EventIds |-> IF e = 1 THEN PayloadOf(d) ELSE NoPayload]
    /\ pc = [e \in EventIds |-> IF e = 1 THEN "start" ELSE "idle"]
    /\ cmd = [e \in EventIds |-> NoCmd]
    /\ calls = <<>>

(***************************************************************************)
(* The handler, from its entry to its first await.                         *)
(***************************************************************************)
\* Lines 85-98: the fields of the command and whether one is empty.
Fields(sourceBranch, targetBranch, prTitle) ==
  [kind |-> IF AnyFieldEmpty(sourceBranch, targetBranch, prTitle)
              THEN "EmptyField" ELSE "Command",
   sourceBranch |-> sourceBranch, targetBranch |-> targetBranch,
   prTitle |-> prTitle]

\* Lines 85-88 and 135: parts && parts.length >= 3 (a match has length 4).
Classify(commandPart, parts) ==
  IF parts.matched
    THEN Fields(parts.m1, parts.m2, PrTitle(commandPart, parts))
    ELSE [kind |-> "NoMatch", sourceBranch |-> <<>>, targetBranch |-> <<>>,
          prTitle |-> <<>>]

\* Lines 81-83.
ParseCommand(commandPart) == Classify(commandPart, CommandRegexExec(commandPart))

\* Outcome with mentionRegex kept at module level under the 'g' flag: after
\* an invocation has matched, the next test resumes behind that match and
\* fails.
OutcomeWithSharedGlobalRegExp(name, body) ==
  IF MentionTest(name, body) /\ calls = <<>>
    THEN ParseCommand(CommandPart(name, body))
    ELSE [kind |-> "NotMentioned", sourceBranch |-> <<>>, targetBranch |-> <<>>,
          prTitle |-> <<>>]

\* Lines 76-88: what the handler makes of a comment body.
Outcome(name, body) ==
  IF MentionTest(name, body)
    THEN ParseCommand(CommandPart(name, body))
    ELSE [kind |-> "NotMentioned", sourceBranch |-> <<>>, targetBranch |-> <<>>,
          prTitle |-> <<>>]

Locals(o) ==
  [sourceBranch |-> o.sourceBranch, targetBranch |-> o.targetBranch,
   prTitle |-> o.prTitle]

Ignore(e, o) ==
  /\ o.kind = "NotMentioned"
  /\ pc' = [pc EXCEPT ![e] = "done"]
  /\ UNCHANGED <<appName, payload, cmd, calls>>

PostUsage(e, o, kind) ==
  /\ o.kind = kind
  /\ cmd' = [cmd EXCEPT ![e] = Locals(o)]
  /\ calls' = Append(calls, CreateCommentCall(e, UsageComment(appName)))
  /\ pc' = [pc EXCEPT ![e] = "awaitUsageComment"]
  /\ UNCHANGED <<appName, payload>>

\* Accept with getBranch not awaited: pulls.create is called at once.
AcceptWithoutAwait(e, o) ==
  /\ o.kind = "Command"
  /\ cmd' = [cmd EXCEPT ![e] = Locals(o)]
  /\ calls' = Append(Append(calls, GetBranchCall(e, Locals(o))),
                     Call(e, "pulls.create",
                          [NoArgs EXCEPT !.title = o.prTitle, !.head = o.sourceBranch,
                                         !.base = o.targetBranch,
                                         !.body = PullRequestBody(payload[e].author, appName)]))
  /\ pc' = [pc EXCEPT ![e] = "awaitGetBranch"]
  /\ UNCHANGED <<appName, payload>>

Accept(e, o) ==
  /\ o.kind = "Command"
  /\ cmd' = [cmd EXCEPT ![e] = Locals(o)]
  /\ calls' = Append(calls, GetBranchCall(e, Locals(o)))
  /\ pc' = [pc EXCEPT ![e] = "awaitGetBranch"]
  /\ UNCHANGED <<appName, payload>>

\* Line 78: the mention does not match; the handler returns.
HandleNotMentioned(e) ==
  /\ pc[e] = "start"
  /\ Ignore(e, Outcome(appName, payload[e].body))

\* Lines 135-141: the arguments do not match; the usage comment is posted.
HandleNoMatch(e) ==
  /\ pc[e] = "start"
  /\ PostUsage(e, Outcome(appName, payload[e].body), "NoMatch")

\* Lines 90-98: a field is empty; the usage comment is posted.
HandleEmptyField(e) ==
  /\ pc[e] = "start"
  /\ PostUsage(e, Outcome(appName, payload[e].body), "EmptyField")

\* Lines 100-103: the command is accepted; getBranch is called.
HandleCommand(e) ==
  /\ pc[e] = "start"
  /\ Accept(e, Outcome(appName, payload[e].body))

(***************************************************************************)
(* The handler, from the return of one awaited call to the next await.     *)
(***************************************************************************)
\* Line 103 resolves; pulls.create is called (lines 105-112).
GetBranchOk(e) ==
  /\ pc[e] = "awaitGetBranch"
  /\ calls' = Append(Resolve(e, <<>>), CreatePullCall(e))
  /\ pc' = [pc EXCEPT ![e] = "awaitCreate"]
  /\ UNCHANGED <<appName, payload, cmd>>

\* The catch block, lines 120-133: the failure comment is posted.
Catch(e, error) ==
  /\ calls' = Append(Reject(e, error), CreateCommentCall(e, ErrorMessage(error)))
  /\ pc' = [pc EXCEPT ![e] = "awaitFailureComment"]
  /\ UNCHANGED <<appName, payload, cmd>>

\* GetBranchFail with the branch check outside the try block's reach: the
\* rejection is dropped and pulls.create is called.
GetBranchFailIgnored(e, error) ==
  /\ pc[e] = "awaitGetBranch"
  /\ calls' = Append(Reject(e, error), CreatePullCall(e))
  /\ pc' = [pc EXCEPT ![e] = "awaitCreate"]
  /\ UNCHANGED <<appName, payload, cmd>>

\* Line 103 rejects.
GetBranchFail(e, error) ==
  /\ pc[e] = "awaitGetBranch"
  /\ Catch(e, error)

\* Line 105 resolves; the success comment is posted (lines 114-119).
CreatePullOk(e, url) ==
  /\ pc[e] = "awaitCreate"
  /\ calls' = Append(Resolve(e, url), CreateCommentCall(e, SuccessComment(url)))
  /\ pc' = [pc EXCEPT ![e] = "awaitSuccessComment"]
  /\ UNCHANGED <<appName, payload, cmd>>

\* Line 105 rejects.
CreatePullFail(e, error) ==
  /\ pc[e] = "awaitCreate"
  /\ Catch(e, error)

\* Line 114 resolves; the handler returns.
SuccessCommentOk(e) ==
  /\ pc[e] = "awaitSuccessComment"
  /\ calls' = Resolve(e, <<>>)
  /\ pc' = [pc EXCEPT ![e] = "done"]
  /\ UNCHANGED <<appName, payload, cmd>>

\* Line 114 rejects inside the try block.
SuccessCommentFail(e, error) ==
  /\ pc[e] = "awaitSuccessComment"
  /\ Catch(e, error)

\* Line 128 resolves; the handler returns.
FailureCommentOk(e) ==
  /\ pc[e] = "awaitFailureComment"
  /\ calls' = Resolve(e, <<>>)
  /\ pc' = [pc EXCEPT ![e] = "done"]
  /\ UNCHANGED <<appName, payload, cmd>>

\* Line 128 rejects outside any try block; the handler's promise rejects.
FailureCommentFail(e, error) ==
  /\ pc[e] = "awaitFailureComment"
  /\ calls' = Reject(e, error)
  /\ pc' = [pc EXCEPT ![e] = "rejected"]
  /\ UNCHANGED <<appName, payload, cmd>>

\* Line 91 or line 136 resolves; the handler returns.
UsageCommentOk(e) ==
  /\ pc[e] = "awaitUsageComment"
  /\ calls' = Resolve(e, <<>>)
  /\ pc' = [pc EXCEPT ![e] = "done"]
  /\ UNCHANGED <<appName, payload, cmd>>

\* Line 91 or line 136 rejects; the handler's promise rejects.
UsageCommentFail(e, error) ==
  /\ pc[e] = "awaitUsageComment"
  /\ calls' = Reject(e, error)
  /\ pc' = [pc EXCEPT ![e] = "rejected"]
  /\ UNCHANGED <<appName, payload, cmd>>

Next ==
  \E e \in EventIds :
    \/ HandleNotMentioned(e)
    \/ HandleNoMatch(e)
    \/ HandleEmptyField(e)
    \/ HandleCommand(e)
    \/ GetBranchOk(e)
    \/ \E error \in Errors : GetBranchFail(e, error)
    \/ \E url \in Urls : CreatePullOk(e, url)
    \/ \E error \in Errors : CreatePullFail(e, error)
    \/ SuccessCommentOk(e)
    \/ \E error \in CommentErrors : SuccessCommentFail(e, error)
    \/ FailureCommentOk(e)
    \/ \E error \in CommentErrors : FailureCommentFail(e, error)
    \/ UsageCommentOk(e)
    \/ \E error \in CommentErrors : UsageCommentFail(e, error)

Spec == Init /\ [][Next]_vars

(***************************************************************************)
(* Two comment events delivered before either is handled.  Probot runs one *)
(* invocation of the handler per event; an invocation runs until its next  *)
(* await, where the other may run.                                         *)
(***************************************************************************)
\* The comments of the two events: two commands with different branches and
\* titles, one argument only, two arguments without a title, and a mention
\* without the command.
ConcurrentBodies ==
  {Phrase(DefaultName) \o <<" ", "a", " ", "b", " ", "a">>,
   Phrase(DefaultName) \o <<" ", "b", " ", "a", " ", Quote, "b", Quote>>,
   Phrase(DefaultName) \o <<" ", "a">>,
   Phrase(DefaultName) \o <<" ", "a", " ", "b">>,
   <<"@">> \o DefaultName \o <<" ", "h", "i">>}

InitConcurrent ==
  \E b1 \in ConcurrentBodies, b2 \in ConcurrentBodies, m2 \in Metas :
    /\ appName = DefaultName
    /\ payload = [e \in EventIds |->
                    IF e = 1 THEN PayloadOf([body |-> b1, meta |-> DefaultMeta])
                    ELSE PayloadOf([body |-> b2, meta |-> m2])]
    /\ pc = [e \in EventIds |-> "start"]
    /\ cmd = [e \in EventIds |-> NoCmd]
    /\ calls = <<>>

SpecConcurrent == InitConcurrent /\ [][Next]_vars

(***************************************************************************)
(* Vocabulary of the properties.  These definitions read the comment body  *)
(* and the recorded calls directly; none of them uses the handler's own    *)
(* regular expressions or texts.                                           *)
(***************************************************************************)
CallIdx(e) == {k \in 1..Len(calls) : calls[k].ev = e}

ApiCalls(e, api) == {k \in CallIdx(e) : calls[k].api = api}

HasNext(k) == \E j \in CallIdx(calls[k].ev) : j > k

\* The call the same invocation makes after call k.
NextCall(k) == calls[SetMin({j \in CallIdx(calls[k].ev) : j > k})]

Delivered(e) == pc[e] # "idle"

Entered(e) == pc[e] \notin {"idle", "start"}

Finished(e) == pc[e] \in {"done", "rejected"}

\* Upper case of the lower-case letters, as a table.
UpperCaseOf ==
  [ch \in {Lower[i] : i \in 1..Len(Lower)} |->
     Upper[CHOOSE i \in 1..Len(Lower) : Lower[i] = ch]]

\* Two characters are the same letter, letter case apart.
SameLetter(c, d) ==
  \/ c = d
  \/ (IF c \in DOMAIN UpperCaseOf THEN UpperCaseOf[c] ELSE c)
       = (IF d \in DOMAIN UpperCaseOf THEN UpperCaseOf[d] ELSE d)

\* The text p stands at position i of b, letter case apart.
OccursAt(p, b, i) ==
  /\ i + Len(p) - 1 <= Len(b)
  /\ \A k \in 1..Len(p) : SameLetter(b[i + k - 1], p[k])

\* The phrase '@<name> create-pr' stands at position i of b, letter case apart.
PhraseAt(name, b, i) == OccursAt(Phrase(name), b, i)

ContainsPhrase(name, b) == \E i \in 1..Len(b) : PhraseAt(name, b, i)

\* The text after the first occurrence of the phrase.
AfterPhrase(name, b) ==
  SubSeq(b, SetMin({i \in 1..Len(b) : PhraseAt(name, b, i)}) + Len(Phrase(name)), Len(b))

\* The number of white-space-delimited tokens of s.
TokenCount(s) ==
  Cardinality({k \in 1..Len(s) :
                 IsNonSpace(s[k]) /\ (k = 1 \/ IsWhiteSpace(s[k - 1]))})

FirstSpace(s) ==
  LET sp == {k \in 1..Len(s) : s[k] = " "}
  IN  IF sp = {} THEN Len(s) + 1 ELSE SetMin(sp)

UpToSpace(s) == SubSeq(s, 1, FirstSpace(s) - 1)

AfterSpace(s) == SubSeq(s, FirstSpace(s) + 1, Len(s))

IsToken(t) == t # <<>> /\ \A k \in 1..Len(t) : IsNonSpace(t[k])

\* b is '@<name> create-pr ' followed by more text.
HasArgs(name, b) ==
  /\ Len(b) > Len(Phrase(name)) + 1
  /\ SubSeq(b, 1, Len(Phrase(name))) = Phrase(name)
  /\ b[Len(Phrase(name)) + 1] = " "

ArgText(name, b) == SubSeq(b, Len(Phrase(name)) + 2, Len(b))

\* For b = '@<name> create-pr A B' or '@<name> create-pr A B R': A, B and R.
TokenA(name, b) == UpToSpace(ArgText(name, b))
TokenB(name, b) == UpToSpace(AfterSpace(ArgText(name, b)))
Trailing(name, b) == AfterSpace(AfterSpace(ArgText(name, b)))

TwoTokens(name, b) ==
  HasArgs(name, b) /\ IsToken(TokenA(name, b)) /\ IsToken(TokenB(name, b))

\* A single space follows B.
HasTrailing(name, b) ==
  FirstSpace(AfterSpace(ArgText(name, b))) <= Len(AfterSpace(ArgText(name, b)))

\* r is "T" for a non-empty T without double quotes.
IsQuotedTitle(r) ==
  /\ Len(r) >= 3
  /\ r[1] = Quote /\ r[Len(r)] = Quote
  /\ \A k \in 2..(Len(r) - 1) : r[k] # Quote

Unquote(r) == SubSeq(r, 2, Len(r) - 1)

\* r is text that does not open with a quote and has no white space around it.
IsUnquotedTitle(r) ==
  /\ r # <<>>
  /\ r[1] # Quote
  /\ IsNonSpace(r[1]) /\ IsNonSpace(r[Len(r)])

\* The invocation treats the comment as the command (A, B, T).
ParsedAs(e, A, B, T) ==
  /\ Entered(e) =>
       /\ cmd[e] = [sourceBranch |-> A, targetBranch |-> B, prTitle |-> T]
       /\ ApiCalls(e, "getBranch") # {}
  /\ \A k \in ApiCalls(e, "getBranch") :
       /\ calls[k].branch = A
       /\ calls[k].owner = payload[e].owner /\ calls[k].repo = payload[e].repo
  /\ (\E k \in ApiCalls(e, "getBranch") : calls[k].state = "ok")
       => ApiCalls(e, "pulls.create") # {}
  /\ \A k \in ApiCalls(e, "pulls.create") :
       /\ calls[k].head = A /\ calls[k].base = B /\ calls[k].title = T
       /\ calls[k].body =
            <<"Pull request created by @", payload[e].author, " via ">>
              \o appName \o <<".">>
       /\ calls[k].owner = payload[e].owner /\ calls[k].repo = payload[e].repo

UsageText(name) ==
  <<"Invalid command format. Please use: @">> \o name
    \o <<" create-pr <source-branch> <target-branch> \"<PR title>\"">>

\* The invocation treats the comment as malformed: the usage comment on the
\* event's issue is its only call.
Malformed(e) ==
  /\ ApiCalls(e, "getBranch") = {}
  /\ ApiCalls(e, "pulls.create") = {}
  /\ Entered(e) =>
       /\ Cardinality(CallIdx(e)) = 1
       /\ \A k \in CallIdx(e) :
            /\ calls[k].api = "createComment"
            /\ calls[k].body = UsageText(appName)
            /\ calls[k].issue_number = payload[e].issue
            /\ calls[k].owner = payload[e].owner
            /\ calls[k].repo = payload[e].repo

FailurePrefix == "Failed to create pull request. Error: "

IsFailureComment(c) == c.api = "createComment" /\ c.body[1] = FailurePrefix

IsUsageComment(c) == c.api = "createComment" /\ c.body = UsageText(appName)

\* s is not empty after trimming white space.
HasInk(s) == \E k \in 1..Len(s) : IsNonSpace(s[k])

\* t stands somewhere in b, letter for letter.
Occurs(t, b) == \E i \in 1..(Len(b) + 1) : SubSeq(b, i, i + Len(t) - 1) = t

\* b with its first Len(Phrase(name)) characters written as the phrase.
Recased(name, b) == Phrase(name) \o SubSeq(b, Len(Phrase(name)) + 1, Len(b))

UsagePrefix == "Invalid command format. Please use: @"

\* The call the same invocation made before call k.
HasPrev(k) == \E j \in CallIdx(calls[k].ev) : j < k

PrevCall(k) == calls[SetMax({j \in CallIdx(calls[k].ev) : j < k})]

\* The failure comment for an error with the given message and status.
FailureText(error) ==
  <<"Failed to create pull request. Error: ">> \o error.message \o <<".">>
    \o (IF error.status = 404
          THEN <<" One or more branches were not found.">>
        ELSE IF error.status = 422
          THEN <<" This could be due to non-existent branches, no differences between branches, or insufficient permissions.">>
        ELSE <<>>)

\* What the invocation made of its comment, as far as its calls show it.
ParseSeen(e) ==
  IF CallIdx(e) = {} THEN [kind |-> "NotMentioned", fields |-> NoCmd]
  ELSE IF calls[SetMin(CallIdx(e))].api = "createComment"
    THEN [kind |-> "Malformed", fields |-> NoCmd]
  ELSE [kind |-> "Command", fields |-> cmd[e]]

\* The body from the first occurrence of the phrase on.
FromPhrase(name, b) ==
  SubSeq(b, SetMin({i \in 1..Len(b) : PhraseAt(name, b, i)}), Len(b))

\* The invocation handles its comment as the parse outcome o prescribes.
HandledAs(e, o) ==
  /\ o.kind = "NotMentioned" => CallIdx(e) = {}
  /\ o.kind \in {"NoMatch", "EmptyField"} => Malformed(e)
  /\ o.kind = "Command"
       => ParsedAs(e, o.sourceBranch, o.targetBranch, o.prTitle)

(***************************************************************************)
(* C1.  A comment that does not contain '@<mentionName> create-pr'         *)
(* (letter case apart) causes no call on the REST client at all.           *)
(***************************************************************************)
C1_NoCallWithoutPhrase ==
  \A e \in EventIds :
    (Delivered(e) /\ ~ContainsPhrase(appName, payload[e].body))
      => CallIdx(e) = {}

(***************************************************************************)
(* C2.  The body '@<mentionName> create-pr A B "T"' is parsed to           *)
(* sourceBranch A, targetBranch B and title T: getBranch is called with    *)
(* branch A, and pulls.create with head A, base B, title T and the body    *)
(* 'Pull request created by @<author> via <mentionName>.'.                 *)
(***************************************************************************)
C2_QuotedCommandParsedExactly ==
  \A e \in EventIds :
    LET b == payload[e].body
    IN  (Delivered(e) /\ TwoTokens(appName, b) /\ HasTrailing(appName, b)
           /\ IsQuotedTitle(Trailing(appName, b)))
          => ParsedAs(e, TokenA(appName, b), TokenB(appName, b),
                      Unquote(Trailing(appName, b)))

\* Witness of C2: a quoted command whose pull request has been requested.
C2_Witness ==
  /\ TwoTokens(appName, payload[1].body)
  /\ HasTrailing(appName, payload[1].body)
  /\ IsQuotedTitle(Trailing(appName, payload[1].body))
  /\ TokenA(appName, payload[1].body) # TokenB(appName, payload[1].body)
  /\ \E k \in ApiCalls(1, "pulls.create") : calls[k].state = "ok"

(***************************************************************************)
(* C3.  The body '@<mentionName> create-pr A B R' with unquoted trailing   *)
(* text R is parsed to sourceBranch A, targetBranch B and title R, the     *)
(* literal text after the second token, whatever A and B are.              *)
(***************************************************************************)
C3_UnquotedTitleIsTrailingText ==
  \A e \in EventIds :
    LET b == payload[e].body
    IN  (Delivered(e) /\ TwoTokens(appName, b) /\ HasTrailing(appName, b)
           /\ IsUnquotedTitle(Trailing(appName, b)))
          => ParsedAs(e, TokenA(appName, b), TokenB(appName, b),
                      Trailing(appName, b))

(***************************************************************************)
(* C4.  A body in which the phrase is followed by fewer than two argument  *)
(* tokens gets the usage comment, naming the configured mentionName, on    *)
(* the event's issue as the only call: neither getBranch nor pulls.create  *)
(* is called.                                                              *)
(***************************************************************************)
C4_FewerThanTwoTokensIsMalformed ==
  \A e \in EventIds :
    LET b == payload[e].body
    IN  (Delivered(e) /\ ContainsPhrase(appName, b)
           /\ TokenCount(AfterPhrase(appName, b)) < 2)
          => Malformed(e)

(***************************************************************************)
(* C5.  The body '@<mentionName> create-pr A B', two argument tokens and   *)
(* no title, is malformed for all A and B: the usage comment is the only   *)
(* call.                                                                   *)
(***************************************************************************)
C5_TwoTokensWithoutTitleIsMalformed ==
  \A e \in EventIds :
    LET b == payload[e].body
    IN  (Delivered(e) /\ TwoTokens(appName, b) /\ ~HasTrailing(appName, b))
          => Malformed(e)

(***************************************************************************)
(* C6.  When getBranch fails, pulls.create is never called in that         *)
(* invocation and the next call is the 'Failed to create pull request'     *)
(* comment.                                                                *)
(***************************************************************************)
C6_GetBranchFailureSkipsCreate ==
  \A k \in 1..Len(calls) :
    (calls[k].api = "getBranch" /\ calls[k].state = "error")
      => /\ ApiCalls(calls[k].ev, "pulls.create") = {}
         /\ HasNext(k)
         /\ IsFailureComment(NextCall(k))

\* Witness of C6: getBranch failed and the invocation has finished.
C6_Witness ==
  /\ pc[1] = "done"
  /\ \E k \in ApiCalls(1, "getBranch") : calls[k].state = "error"
  /\ Len(calls) = 2

(***************************************************************************)
(* C7.  When getBranch or pulls.create fails with message M and status S,  *)
(* the comment posted next is 'Failed to create pull request. Error: M.'   *)
(* followed by the not-found sentence if S = 404, by the                   *)
(* unprocessable sentence if S = 422, and by nothing otherwise.            *)
(***************************************************************************)
C7_FailureCommentText ==
  \A k \in 1..Len(calls) :
    (calls[k].api \in {"getBranch", "pulls.create"} /\ calls[k].state = "error")
      => /\ HasNext(k)
         /\ NextCall(k).api = "createComment"
         /\ NextCall(k).issue_number = payload[calls[k].ev].issue
         /\ NextCall(k).body =
              <<"Failed to create pull request. Error: ">>
                \o calls[k].error.message \o <<".">>
                \o (IF calls[k].error.status = 404
                      THEN <<" One or more branches were not found.">>
                    ELSE IF calls[k].error.status = 422
                      THEN <<" This could be due to non-existent branches, no differences between branches, or insufficient permissions.">>
                    ELSE <<>>)

\* Witness of C7: pulls.create failed with status 422 and the comment was posted.
C7_Witness ==
  /\ pc[1] = "done"
  /\ \E k \in ApiCalls(1, "pulls.create") :
       calls[k].state = "error" /\ calls[k].error.status = 422
  /\ \E k \in ApiCalls(1, "createComment") :
       calls[k].state = "ok" /\ Len(calls[k].body) = 4

(***************************************************************************)
(* C8.  When getBranch and pulls.create both succeed, the invocation posts *)
(* exactly the comment 'Successfully created pull request: <url>' with the *)
(* url that pulls.create returned, and no failure or usage comment.        *)
(***************************************************************************)
C8_SuccessCommentOnly ==
  \A e \in EventIds :
    \A k \in ApiCalls(e, "pulls.create") :
      calls[k].state = "ok"
        => /\ \A j \in ApiCalls(e, "createComment") :
                /\ calls[j].body =
                     <<"Successfully created pull request: ">> \o calls[k].url
                /\ calls[j].issue_number = payload[e].issue
           /\ Cardinality(ApiCalls(e, "createComment")) = 1

(***************************************************************************)
(* C9.  For a body that contains the phrase, whatever getBranch and        *)
(* pulls.create return, and provided every createComment call succeeds,    *)
(* the handler finishes without an exception escaping it, having made      *)
(* exactly one createComment call, addressed to the event's own owner,     *)
(* repo and issue number.                                                  *)
(***************************************************************************)
C9_ExactlyOneCommentNoException ==
  \A e \in EventIds :
    (/\ Finished(e)
     /\ ContainsPhrase(appName, payload[e].body)
     /\ \A k \in ApiCalls(e, "createComment") : calls[k].state = "ok")
      => /\ pc[e] = "done"
         /\ Cardinality(ApiCalls(e, "createComment")) = 1
         /\ \A k \in ApiCalls(e, "createComment") :
              /\ calls[k].owner = payload[e].owner
              /\ calls[k].repo = payload[e].repo
              /\ calls[k].issue_number = payload[e].issue

\* Witness of C9: pulls.create failed, one comment was posted, the handler returned.
C9_Witness ==
  /\ pc[1] = "done"
  /\ ContainsPhrase(appName, payload[1].body)
  /\ payload[1].issue # DefaultMeta.issue
  /\ \E k \in ApiCalls(1, "pulls.create") : calls[k].state = "error"
  /\ \A k \in ApiCalls(1, "createComment") : calls[k].state = "ok"

(***************************************************************************)
(* C10.  Whenever getBranch or pulls.create is called, sourceBranch,       *)
(* targetBranch and title each hold a character that is not white space,   *)
(* for quoted titles too.                                                  *)
(***************************************************************************)
C10_FieldsNonEmptyAfterTrim ==
  \A k \in 1..Len(calls) :
    /\ calls[k].api = "getBranch"
         => /\ HasInk(calls[k].branch)
            /\ HasInk(cmd[calls[k].ev].sourceBranch)
            /\ HasInk(cmd[calls[k].ev].targetBranch)
            /\ HasInk(cmd[calls[k].ev].prTitle)
    /\ calls[k].api = "pulls.create"
         => HasInk(calls[k].head) /\ HasInk(calls[k].base) /\ HasInk(calls[k].title)

(***************************************************************************)
(* C11.  The phrase is recognised in any letter case: a body that opens    *)
(* with the phrase in any case, followed by A B "T", is the command        *)
(* (A, B, T).  Every branch and title handed to getBranch and pulls.create *)
(* stands in the comment letter for letter, and the usage comment and the  *)
(* pull request body name the configured mentionName.                      *)
(***************************************************************************)
C11_PhraseAnyCaseArgumentsVerbatim ==
  /\ \A e \in EventIds :
       LET b == payload[e].body
           r == Recased(appName, b)
       IN  (Delivered(e) /\ PhraseAt(appName, b, 1)
              /\ TwoTokens(appName, r) /\ HasTrailing(appName, r)
              /\ IsQuotedTitle(Trailing(appName, r)))
             => ParsedAs(e, TokenA(appName, r), TokenB(appName, r),
                         Unquote(Trailing(appName, r)))
  /\ \A k \in 1..Len(calls) :
       LET b == payload[calls[k].ev].body
       IN  /\ calls[k].api = "getBranch" => Occurs(calls[k].branch, b)
           /\ calls[k].api = "pulls.create"
                => /\ Occurs(calls[k].head, b)
                   /\ Occurs(calls[k].base, b)
                   /\ Occurs(calls[k].title, b)
                   /\ calls[k].body =
                        <<"Pull request created by @", payload[calls[k].ev].author,
                          " via ">> \o appName \o <<".">>
           /\ (calls[k].api = "createComment" /\ calls[k].body[1] = UsagePrefix)
                => calls[k].body = UsageText(appName)

\* Witness of C11: the phrase typed in upper case, the arguments in mixed
\* case, and the pull request created with them.
C11_Witness ==
  /\ PhraseAt(appName, payload[1].body, 1)
  /\ payload[1].body[2] = "O"
  /\ \E k \in ApiCalls(1, "pulls.create") :
       /\ calls[k].state = "ok"
       /\ calls[k].head = <<"A", "b">>
       /\ calls[k].base = <<"a", "B">>
       /\ calls[k].title = <<"T", "t">>

(***************************************************************************)
(* C12.  The phrase may stand anywhere in the body: a body P followed by   *)
(* the phrase and its arguments, where P does not contain the phrase, is   *)
(* handled as the phrase and its arguments alone are (same outcome, same   *)
(* calls with the same arguments), and the argument tail is the text after *)
(* the first occurrence of the phrase, trimmed.                            *)
(***************************************************************************)
C12_PrefixBeforePhraseIgnored ==
  \A e \in EventIds :
    LET b == payload[e].body
    IN  (Delivered(e) /\ ContainsPhrase(appName, b))
          => /\ HandledAs(e, Outcome(appName, FromPhrase(appName, b)))
             /\ HandledAs(e, ParseCommand(Trim(AfterPhrase(appName, b))))

C14_CallsSequentialNoRetry ==
  \A e \in EventIds :
    /\ Cardinality(ApiCalls(e, "getBranch")) <= 1
    /\ Cardinality(ApiCalls(e, "pulls.create")) <= 1
    /\ \A k \in ApiCalls(e, "pulls.create") :
         \E j \in ApiCalls(e, "getBranch") : j < k /\ calls[j].state = "ok"
    /\ \A k \in ApiCalls(e, "createComment") :
         \A j \in ApiCalls(e, "getBranch") \cup ApiCalls(e, "pulls.create") :
           j < k /\ calls[j].state # "pending"
    /\ \A k \in CallIdx(e) : calls[k].state = "pending" => ~HasNext(k)
    /\ (Finished(e) /\ CallIdx(e) # {})
         => calls[SetMax(CallIdx(e))].api = "createComment"

\* Witness of C14: an invocation went through getBranch, pulls.create and the
\* comment while the other invocation made a call in between.
C14_Witness ==
  /\ pc[1] = "done"
  /\ Cardinality(CallIdx(1)) = 3
  /\ \A k \in CallIdx(1) : calls[k].state = "ok"
  /\ Len(calls) >= 2 /\ calls[1].ev = 1 /\ calls[2].ev = 2

(***************************************************************************)
(* C15.  With two events handled concurrently, every call of an event is   *)
(* made for that event's own owner, repo and issue, with the branches and  *)
(* title of its own comment, the author of its own comment, the url its    *)
(* own pulls.create returned and the error its own call failed with,       *)
(* whatever the other event does in between.                               *)
(***************************************************************************)
C15_CallsFromOwnEventOnly ==
  /\ \A e \in EventIds :
       Entered(e) => cmd[e] = Locals(Outcome(appName, payload[e].body))
  /\ \A k \in 1..Len(calls) :
       LET e == calls[k].ev
       IN  /\ calls[k].owner = payload[e].owner
           /\ calls[k].repo = payload[e].repo
           /\ calls[k].api = "getBranch" => calls[k].branch = cmd[e].sourceBranch
           /\ calls[k].api = "pulls.create"
                => /\ calls[k].head = cmd[e].sourceBranch
                   /\ calls[k].base = cmd[e].targetBranch
                   /\ calls[k].title = cmd[e].prTitle
                   /\ calls[k].body =
                        <<"Pull request created by @", payload[e].author, " via ">>
                          \o appName \o <<".">>
           /\ calls[k].api = "createComment"
                => /\ calls[k].issue_number = payload[e].issue
                   /\ IF ~HasPrev(k) THEN calls[k].body = UsageText(appName)
                      ELSE IF PrevCall(k).state = "ok"
                        THEN calls[k].body =
                               <<"Successfully created pull request: ">> \o PrevCall(k).url
                      ELSE calls[k].body = FailureText(PrevCall(k).error)

\* Witness of C15: two different commands on the same issue, their calls
\* interleaved, one pull request created and one refused.
C15_Witness ==
  /\ pc[1] = "done" /\ pc[2] = "done"
  /\ payload[1].body # payload[2].body
  /\ payload[1].issue = payload[2].issue
  /\ Len(calls) = 6
  /\ calls[1].ev = 1 /\ calls[2].ev = 2 /\ calls[3].ev = 1 /\ calls[4].ev = 2
  /\ \E k \in ApiCalls(1, "pulls.create") : calls[k].state = "ok"
  /\ \E k \in ApiCalls(2, "pulls.create") : calls[k].state = "error"

(***************************************************************************)
(* C16.  An invocation whose pulls.create succeeded posts no 'Failed to    *)
(* create pull request' comment, and no invocation makes more than one     *)
(* createComment call, also when a createComment call fails.               *)
(***************************************************************************)
C16_NoFailureCommentAfterCreatedPull ==
  \A e \in EventIds :
    /\ (\E k \in ApiCalls(e, "pulls.create") : calls[k].state = "ok")
         => \A j \in ApiCalls(e, "createComment") : ~IsFailureComment(calls[j])
    /\ Cardinality(ApiCalls(e, "createComment")) <= 1

====
